---- MODULE Spec2Model ----
(***************************************************************************)
(* The 2048 game models of game_2048_model: the flat ArrayModel            *)
(* (src/models/array.rs) and the nested Matrix (src/models/matrix.rs),     *)
(* both built from the same board and driven by the same calls.            *)
(***************************************************************************)
EXTENDS Integers, Sequences, FiniteSets, TLC

VARIABLES
    board,        \* ArrayModel.board : flat index 0..15 -> rank
    matrix,       \* Matrix.board     : row 0..3 -> (col 0..3 -> rank)
    old_board,    \* ArrayModel.board when the last call started
    old_matrix,   \* Matrix.board when the last call started
    op,           \* the last call: "from", "slide" or "random"
    direction,    \* argument of the last slide
    draw,         \* what the randomness source returned during the last random
    ret,          \* what the last call returned, per model
    panicked,     \* per model: the last call aborted on an arithmetic overflow
    steps         \* number of calls since construction

vars == <<board, matrix, old_board, old_matrix, op, direction, draw, ret, panicked, steps>>

-----------------------------------------------------------------------------
(* Bounds of the model *)

MaxRank == 3
MaxSteps == 1

-----------------------------------------------------------------------------
(* base/mod.rs *)

BOARD_SIZE == 4

U8_MAX == 255

Directions == {"Up", "Right", "Down", "Left"}

Cells == 0 .. (BOARD_SIZE * BOARD_SIZE - 1)

Coords == 0 .. (BOARD_SIZE - 1)

\* Option<usize>: None is the empty tuple, Some(x) the one-element tuple
None == << >>

Some(x) == << x >>

\* a Rust array literal, indexed from 0
ArrayOf(seq) == [i \in 0 .. (Len(seq) - 1) |-> seq[i + 1]]

\* x + y on BoardElement (u8): with overflow checks off the sum wraps, with
\* overflow checks on the operation panics
add_u8(x, y, wrap) ==
    IF x + y <= U8_MAX
    THEN [value |-> x + y, overflow |-> FALSE]
    ELSE [value |-> IF wrap THEN (x + y) % (U8_MAX + 1) ELSE x, overflow |-> ~wrap]

-----------------------------------------------------------------------------
(* models/array.rs *)

\* UP_INDEX with the last entry repeating the one before it
UP_INDEX_repeated == ArrayOf(<<
    0, 4, 8, 12,
    1, 5, 9, 13,
    2, 6, 10, 14,
    3, 7, 11, 11 >>)

UP_INDEX == ArrayOf(<<
    0, 4, 8, 12,
    1, 5, 9, 13,
    2, 6, 10, 14,
    3, 7, 11, 15 >>)

RIGHT_INDEX == ArrayOf(<<
    3, 2, 1, 0,
    7, 6, 5, 4,
    11, 10, 9, 8,
    15, 14, 13, 12 >>)

\* DOWN_INDEX with the columns listed top to bottom, as in UP_INDEX
DOWN_INDEX_top_first == ArrayOf(<<
    0, 4, 8, 12,
    1, 5, 9, 13,
    2, 6, 10, 14,
    3, 7, 11, 15 >>)

DOWN_INDEX == ArrayOf(<<
    12, 8, 4, 0,
    13, 9, 5, 1,
    14, 10, 6, 2,
    15, 11, 7, 3 >>)

LEFT_INDEX == ArrayOf(<<
    0, 1, 2, 3,
    4, 5, 6, 7,
    8, 9, 10, 11,
    12, 13, 14, 15 >>)

\* shift_step with the test for an empty cell forgotten: the first cell of a
\* line becomes the move target whatever it holds
shift_step_any(st, index, inner_i) ==
    LET ind == index[inner_i]
        value == st.array[ind]
    IN  IF st.movable # None
        THEN LET move_to == st.movable[1]
             IN  IF value # 0 /\ inner_i # move_to
                 THEN [array |-> [st.array EXCEPT ![index[move_to]] = value, ![ind] = 0],
                       movable |-> Some(move_to + 1)]
                 ELSE st
        ELSE [st EXCEPT !.movable = Some(inner_i)]

\* one iteration of the inner loop of shift
shift_step(st, index, inner_i) ==
    LET ind == index[inner_i]
        value == st.array[ind]
    IN  IF st.movable # None
        THEN LET move_to == st.movable[1]
             IN  IF value # 0 /\ inner_i # move_to
                 THEN [array |-> [st.array EXCEPT ![index[move_to]] = value, ![ind] = 0],
                       movable |-> Some(move_to + 1)]
                 ELSE st
        ELSE IF value = 0
             THEN [st EXCEPT !.movable = Some(inner_i)]
             ELSE st

RECURSIVE shift_inner(_, _, _, _)
\* the inner loop of shift: for inner_i in from..to
shift_inner(st, index, from, to) ==
    IF from >= to THEN st
    ELSE shift_inner(shift_step(st, index, from), index, from + 1, to)

\* shift with movable declared outside the outer loop: one cursor for the
\* whole board
shift_outer_carry(array, index, outer_i) ==
    IF outer_i >= 16 THEN array
    ELSE shift_inner([array |-> array, movable |-> None], index, outer_i, 16).array

RECURSIVE shift_outer(_, _, _)
\* the outer loop of shift: for outer_i in (0..16).step_by(4), movable starts as None
shift_outer(array, index, outer_i) ==
    IF outer_i >= 16 THEN array
    ELSE shift_outer(
            shift_inner([array |-> array, movable |-> None], index, outer_i, outer_i + 4).array,
            index, outer_i + 4)

shift(array, index) == shift_outer(array, index, 0)

\* merge_step adding the merged-from value instead of 1 (the rule of lib.rs)
merge_step_sum(st, index, inner_i, wrap) ==
    LET ind == index[inner_i]
        value == st.array[ind]
    IN  IF value = 0
        THEN [st EXCEPT !.stop = TRUE]
        ELSE IF st.mergeable # None
             THEN LET merge_to == st.mergeable[1]
                      prev_ind == index[merge_to]
                      prev_value == st.array[prev_ind]
                      sum == add_u8(prev_value, value, wrap)
                  IN  IF value = prev_value /\ merge_to + 1 = inner_i
                      THEN IF sum.overflow
                           THEN [st EXCEPT !.panicked = TRUE]
                           ELSE [st EXCEPT !.array = [st.array EXCEPT ![prev_ind] = sum.value, ![ind] = 0],
                                           !.mergeable = None]
                      ELSE [st EXCEPT !.mergeable = Some(inner_i)]
             ELSE [st EXCEPT !.mergeable = Some(inner_i)]

\* merge_step leaving the merged-from cell as it was
merge_step_keep(st, index, inner_i, wrap) ==
    LET ind == index[inner_i]
        value == st.array[ind]
    IN  IF value = 0
        THEN [st EXCEPT !.stop = TRUE]
        ELSE IF st.mergeable # None
             THEN LET merge_to == st.mergeable[1]
                      prev_ind == index[merge_to]
                      prev_value == st.array[prev_ind]
                      sum == add_u8(prev_value, 1, wrap)
                  IN  IF value = prev_value /\ merge_to + 1 = inner_i
                      THEN IF sum.overflow
                           THEN [st EXCEPT !.panicked = TRUE]
                           ELSE [st EXCEPT !.array = [st.array EXCEPT ![prev_ind] = sum.value],
                                           !.mergeable = None]
                      ELSE [st EXCEPT !.mergeable = Some(inner_i)]
             ELSE [st EXCEPT !.mergeable = Some(inner_i)]

\* one iteration of the inner loop of merge; stop is the break on an empty cell
merge_step(st, index, inner_i, wrap) ==
    LET ind == index[inner_i]
        value == st.array[ind]
    IN  IF value = 0
        THEN [st EXCEPT !.stop = TRUE]
        ELSE IF st.mergeable # None
             THEN LET merge_to == st.mergeable[1]
                      prev_ind == index[merge_to]
                      prev_value == st.array[prev_ind]
                      sum == add_u8(prev_value, 1, wrap)
                  IN  IF value = prev_value /\ merge_to + 1 = inner_i
                      THEN IF sum.overflow
                           THEN [st EXCEPT !.panicked = TRUE]
                           ELSE [st EXCEPT !.array = [st.array EXCEPT ![prev_ind] = sum.value, ![ind] = 0],
                                           !.mergeable = None]
                      ELSE [st EXCEPT !.mergeable = Some(inner_i)]
             ELSE [st EXCEPT !.mergeable = Some(inner_i)]

RECURSIVE merge_inner(_, _, _, _, _)
\* the inner loop of merge: for inner_i in from..to, left by break or by a panic
merge_inner(st, index, from, to, wrap) ==
    IF from >= to \/ st.stop \/ st.panicked THEN st
    ELSE merge_inner(merge_step(st, index, from, wrap), index, from + 1, to, wrap)

RECURSIVE merge_outer(_, _, _, _)
\* the outer loop of merge: for outer_i in (0..16).step_by(4), mergeable starts as None
merge_outer(st, index, outer_i, wrap) ==
    IF outer_i >= 16 \/ st.panicked THEN st
    ELSE LET line == merge_inner([array |-> st.array, mergeable |-> None,
                                  stop |-> FALSE, panicked |-> FALSE],
                                 index, outer_i, outer_i + 4, wrap)
         IN  merge_outer([array |-> line.array, panicked |-> line.panicked],
                         index, outer_i + 4, wrap)

merge(array, index, wrap) == merge_outer([array |-> array, panicked |-> FALSE], index, 0, wrap)

\* the index table slide matches to a direction
IndexOf(d) ==
    CASE d = "Up" -> UP_INDEX
      [] d = "Right" -> RIGHT_INDEX
      [] d = "Down" -> DOWN_INDEX
      [] d = "Left" -> LEFT_INDEX

\* ArrayModel::slide comparing old_board with the board after the first shift
ArrayModel_slide_cmp_shifted(b, d, wrap) ==
    LET old == b
        shifted == shift(b, IndexOf(d))
        merged == merge(shifted, IndexOf(d), wrap)
        final == shift(merged.array, IndexOf(d))
    IN  IF merged.panicked
        THEN [board |-> merged.array, ret |-> None, panicked |-> TRUE]
        ELSE [board |-> final,
              ret |-> IF old # shifted THEN Some(TRUE) ELSE None,
              panicked |-> FALSE]

\* ArrayModel::slide without the shift before the merge
ArrayModel_slide_no_first_shift(b, d, wrap) ==
    LET old == b
        merged == merge(b, IndexOf(d), wrap)
        final == shift(merged.array, IndexOf(d))
    IN  IF merged.panicked
        THEN [board |-> merged.array, ret |-> None, panicked |-> TRUE]
        ELSE [board |-> final,
              ret |-> IF old # final THEN Some(TRUE) ELSE None,
              panicked |-> FALSE]

\* ArrayModel::slide reporting Some(true) whatever the comparison gives
ArrayModel_slide_always_moved(b, d, wrap) ==
    LET shifted == shift(b, IndexOf(d))
        merged == merge(shifted, IndexOf(d), wrap)
        final == shift(merged.array, IndexOf(d))
    IN  IF merged.panicked
        THEN [board |-> merged.array, ret |-> None, panicked |-> TRUE]
        ELSE [board |-> final, ret |-> Some(TRUE), panicked |-> FALSE]

\* ArrayModel::slide with the comparison inverted: Some(true) when the board
\* equals old_board
ArrayModel_slide_inverted(b, d, wrap) ==
    LET old == b
        shifted == shift(b, IndexOf(d))
        merged == merge(shifted, IndexOf(d), wrap)
        final == shift(merged.array, IndexOf(d))
    IN  IF merged.panicked
        THEN [board |-> merged.array, ret |-> None, panicked |-> TRUE]
        ELSE [board |-> final,
              ret |-> IF old = final THEN Some(TRUE) ELSE None,
              panicked |-> FALSE]

\* ArrayModel::slide without the shift after the merge
ArrayModel_slide_no_last_shift(b, d, wrap) ==
    LET old == b
        shifted == shift(b, IndexOf(d))
        merged == merge(shifted, IndexOf(d), wrap)
    IN  IF merged.panicked
        THEN [board |-> merged.array, ret |-> None, panicked |-> TRUE]
        ELSE [board |-> merged.array,
              ret |-> IF old # merged.array THEN Some(TRUE) ELSE None,
              panicked |-> FALSE]

\* ArrayModel::slide: shift, merge, shift along the direction's index, then
\* Some(true) if the board differs from old_board and None otherwise
ArrayModel_slide(b, d, wrap) ==
    LET old == b
        shifted == shift(b, IndexOf(d))
        merged == merge(shifted, IndexOf(d), wrap)
        final == shift(merged.array, IndexOf(d))
    IN  IF merged.panicked
        THEN [board |-> merged.array, ret |-> None, panicked |-> TRUE]
        ELSE [board |-> final,
              ret |-> IF old # final THEN Some(TRUE) ELSE None,
              panicked |-> FALSE]

\* rng.gen_range(low, high): the values the randomness source can return
gen_range(low, high) == low .. (high - 1)

\* the fold of random: the number of cells holding 0 among the first n cells
RECURSIVE count_empty(_, _)
count_empty(array, n) ==
    IF n = 0 THEN 0
    ELSE count_empty(array, n - 1) + (IF array[n - 1] = 0 THEN 1 ELSE 0)

\* new_rank with the values of lib.rs: 4 above the threshold 5, else 2
new_rank_legacy(val) == IF val > 5 THEN 4 ELSE 2

\* new_rank with the ranks counted from 0
new_rank_zero_based(val) == IF val > 8 THEN 1 ELSE 0

\* new_rank with the threshold compared by >=
new_rank_ge(val) == IF val >= 8 THEN 2 ELSE 1

\* the rank random stores for the second draw
new_rank(val) == IF val > 8 THEN 2 ELSE 1

RECURSIVE ArrayModel_random_scan_from_one(_, _, _, _)
\* the scan loop counting the empty cell before comparing: the first empty
\* cell has number 1
ArrayModel_random_scan_from_one(b, rng, cur_ind, elm_ind) ==
    IF elm_ind >= 16
    THEN [board |-> b, result |-> "Err", site |-> "after_loop", taken |-> 1]
    ELSE IF b[elm_ind] = 0
         THEN IF cur_ind + 1 = rng.ind
              THEN [board |-> [b EXCEPT ![elm_ind] = new_rank(rng.val)],
                    result |-> "Ok", site |-> "loop", taken |-> 2]
              ELSE ArrayModel_random_scan_from_one(b, rng, cur_ind + 1, elm_ind + 1)
         ELSE ArrayModel_random_scan_from_one(b, rng, cur_ind, elm_ind + 1)

RECURSIVE ArrayModel_random_scan_count_all(_, _, _, _)
\* the scan loop counting every cell it passes, not only the empty ones
ArrayModel_random_scan_count_all(b, rng, cur_ind, elm_ind) ==
    IF elm_ind >= 16
    THEN [board |-> b, result |-> "Err", site |-> "after_loop", taken |-> 1]
    ELSE IF b[elm_ind] = 0 /\ cur_ind = rng.ind
         THEN [board |-> [b EXCEPT ![elm_ind] = new_rank(rng.val)],
               result |-> "Ok", site |-> "loop", taken |-> 2]
         ELSE ArrayModel_random_scan_count_all(b, rng, cur_ind + 1, elm_ind + 1)

RECURSIVE ArrayModel_random_scan(_, _, _, _)
\* the scan loop of ArrayModel::random from elm_ind on; rng holds the two
\* values the randomness source returns, in the order they are asked for
ArrayModel_random_scan(b, rng, cur_ind, elm_ind) ==
    IF elm_ind >= 16
    THEN [board |-> b, result |-> "Err", site |-> "after_loop", taken |-> 1]
    ELSE IF b[elm_ind] = 0
         THEN IF cur_ind = rng.ind
              THEN [board |-> [b EXCEPT ![elm_ind] = new_rank(rng.val)],
                    result |-> "Ok", site |-> "loop", taken |-> 2]
              ELSE ArrayModel_random_scan(b, rng, cur_ind + 1, elm_ind + 1)
         ELSE ArrayModel_random_scan(b, rng, cur_ind, elm_ind + 1)

\* ArrayModel::random without the early return, the drawn index used as the
\* index of the cell to write
ArrayModel_random_any_cell(b, rng) ==
    [board |-> [b EXCEPT ![rng.ind] = new_rank(rng.val)],
     result |-> "Ok", site |-> "loop", taken |-> 2]

\* ArrayModel::random drawing the index before it looks at the count
ArrayModel_random_draw_first(b, rng) ==
    LET max == count_empty(b, 16)
    IN  IF max = 0
        THEN [board |-> b, result |-> "Err", site |-> "guard", taken |-> 1]
        ELSE ArrayModel_random_scan(b, rng, 0, 0)

\* ArrayModel::random
ArrayModel_random(b, rng) ==
    LET max == count_empty(b, 16)
    IN  IF max = 0
        THEN [board |-> b, result |-> "Err", site |-> "guard", taken |-> 0]
        ELSE ArrayModel_random_scan(b, rng, 0, 0)

\* impl From<MatrixBoard> for ArrayModel
ArrayModel_from_matrix(mb) == ArrayOf(<<
    mb[0][0], mb[0][1], mb[0][2], mb[0][3],
    mb[1][0], mb[1][1], mb[1][2], mb[1][3],
    mb[2][0], mb[2][1], mb[2][2], mb[2][3],
    mb[3][0], mb[3][1], mb[3][2], mb[3][3] >>)

\* impl From<ArrayBoard> for ArrayModel
ArrayModel_from_array(ab) == ab

\* new with the board filled with ones
ArrayModel_new_ones == [i \in Cells |-> 1]

\* ArrayModel::new
ArrayModel_new == [i \in Cells |-> 0]

\* as_matrix listing the cells column by column
ArrayModel_as_matrix_transposed(b) == ArrayOf(<<
    ArrayOf(<< b[0], b[4], b[8], b[12] >>),
    ArrayOf(<< b[1], b[5], b[9], b[13] >>),
    ArrayOf(<< b[2], b[6], b[10], b[14] >>),
    ArrayOf(<< b[3], b[7], b[11], b[15] >>) >>)

\* ArrayModel::as_matrix
ArrayModel_as_matrix(b) == ArrayOf(<<
    ArrayOf(<< b[0], b[1], b[2], b[3] >>),
    ArrayOf(<< b[4], b[5], b[6], b[7] >>),
    ArrayOf(<< b[8], b[9], b[10], b[11] >>),
    ArrayOf(<< b[12], b[13], b[14], b[15] >>) >>)

\* ArrayModel::as_array
ArrayModel_as_array(b) == b

-----------------------------------------------------------------------------
(* models/matrix.rs *)

\* one iteration of the inner loop of slide_up
slide_up_step(st, col, row, wrap) ==
    LET value == st.board[row][col]
        p_ind == st.potential_merge[1]
        sum == add_u8(st.board[p_ind][col], 1, wrap)
        merges == st.potential_merge # None /\ st.board[p_ind][col] = value
        st1 == IF merges
               THEN IF sum.overflow
                    THEN [st EXCEPT !.panicked = TRUE]
                    ELSE [st EXCEPT !.board = [st.board EXCEPT ![p_ind][col] = sum.value, ![row][col] = 0],
                                    !.first_empty = Some(row),
                                    !.potential_merge = None]
               ELSE st
        value2 == st1.board[row][col]
        target == st1.first_empty[1]
    IN  IF st1.panicked THEN st1
        ELSE IF value2 = 0 /\ st1.first_empty = None
        THEN [st1 EXCEPT !.first_empty = Some(row)]
        ELSE IF value2 # 0
             THEN IF st1.first_empty # None
                  THEN [st1 EXCEPT !.board = [st1.board EXCEPT ![target][col] = value2, ![row][col] = 0],
                                   !.first_empty = Some(target + 1),
                                   !.potential_merge = Some(target)]
                  ELSE [st1 EXCEPT !.potential_merge = Some(row)]
             ELSE st1

RECURSIVE slide_up_inner(_, _, _, _)
\* the inner loop of slide_up: for row in row..4
slide_up_inner(st, col, row, wrap) ==
    IF row >= 4 \/ st.panicked THEN st
    ELSE slide_up_inner(slide_up_step(st, col, row, wrap), col, row + 1, wrap)

RECURSIVE slide_up_outer(_, _, _)
\* the outer loop of slide_up: for col in col..4, both cursors start as None
slide_up_outer(st, col, wrap) ==
    IF col >= 4 \/ st.panicked THEN st
    ELSE LET done == slide_up_inner([board |-> st.board, first_empty |-> None,
                                   potential_merge |-> None, panicked |-> FALSE],
                                  col, 0, wrap)
         IN  slide_up_outer([board |-> done.board, panicked |-> done.panicked], col + 1, wrap)

slide_up(m, wrap) == slide_up_outer([board |-> m, panicked |-> FALSE], 0, wrap)

\* one iteration of the inner loop of slide_right
slide_right_step(st, row, col, wrap) ==
    LET value == st.board[row][col]
        p_ind == st.potential_merge[1]
        sum == add_u8(st.board[row][p_ind], 1, wrap)
        merges == st.potential_merge # None /\ st.board[row][p_ind] = value
        st1 == IF merges
               THEN IF sum.overflow
                    THEN [st EXCEPT !.panicked = TRUE]
                    ELSE [st EXCEPT !.board = [st.board EXCEPT ![row][p_ind] = sum.value, ![row][col] = 0],
                                    !.first_empty = Some(col),
                                    !.potential_merge = None]
               ELSE st
        value2 == st1.board[row][col]
        target == st1.first_empty[1]
    IN  IF st1.panicked THEN st1
        ELSE IF value2 = 0 /\ st1.first_empty = None
        THEN [st1 EXCEPT !.first_empty = Some(col)]
        ELSE IF value2 # 0
             THEN IF st1.first_empty # None
                  THEN [st1 EXCEPT !.board = [st1.board EXCEPT ![row][target] = value2, ![row][col] = 0],
                                   !.first_empty = Some(target - 1),
                                   !.potential_merge = Some(target)]
                  ELSE [st1 EXCEPT !.potential_merge = Some(col)]
             ELSE st1

RECURSIVE slide_right_inner(_, _, _, _)
\* the inner loop of slide_right: for col in (0..4).rev(), from col down to 0
slide_right_inner(st, row, col, wrap) ==
    IF col < 0 \/ st.panicked THEN st
    ELSE slide_right_inner(slide_right_step(st, row, col, wrap), row, col - 1, wrap)

RECURSIVE slide_right_outer(_, _, _)
\* the outer loop of slide_right: for row in row..4, both cursors start as None
slide_right_outer(st, row, wrap) ==
    IF row >= 4 \/ st.panicked THEN st
    ELSE LET done == slide_right_inner([board |-> st.board, first_empty |-> None,
                                   potential_merge |-> None, panicked |-> FALSE],
                                  row, 3, wrap)
         IN  slide_right_outer([board |-> done.board, panicked |-> done.panicked], row + 1, wrap)

slide_right(m, wrap) == slide_right_outer([board |-> m, panicked |-> FALSE], 0, wrap)

\* one iteration of the inner loop of slide_down
slide_down_step(st, col, row, wrap) ==
    LET value == st.board[row][col]
        p_ind == st.potential_merge[1]
        sum == add_u8(st.board[p_ind][col], 1, wrap)
        merges == st.potential_merge # None /\ st.board[p_ind][col] = value
        st1 == IF merges
               THEN IF sum.overflow
                    THEN [st EXCEPT !.panicked = TRUE]
                    ELSE [st EXCEPT !.board = [st.board EXCEPT ![p_ind][col] = sum.value, ![row][col] = 0],
                                    !.first_empty = Some(row),
                                    !.potential_merge = None]
               ELSE st
        value2 == st1.board[row][col]
        target == st1.first_empty[1]
    IN  IF st1.panicked THEN st1
        ELSE IF value2 = 0 /\ st1.first_empty = None
        THEN [st1 EXCEPT !.first_empty = Some(row)]
        ELSE IF value2 # 0
             THEN IF st1.first_empty # None
                  THEN [st1 EXCEPT !.board = [st1.board EXCEPT ![target][col] = value2, ![row][col] = 0],
                                   !.first_empty = Some(target - 1),
                                   !.potential_merge = Some(target)]
                  ELSE [st1 EXCEPT !.potential_merge = Some(row)]
             ELSE st1

RECURSIVE slide_down_inner(_, _, _, _)
\* the inner loop of slide_down: for row in (0..4).rev(), from row down to 0
slide_down_inner(st, col, row, wrap) ==
    IF row < 0 \/ st.panicked THEN st
    ELSE slide_down_inner(slide_down_step(st, col, row, wrap), col, row - 1, wrap)

RECURSIVE slide_down_outer(_, _, _)
\* the outer loop of slide_down: for col in col..4, both cursors start as None
slide_down_outer(st, col, wrap) ==
    IF col >= 4 \/ st.panicked THEN st
    ELSE LET done == slide_down_inner([board |-> st.board, first_empty |-> None,
                                   potential_merge |-> None, panicked |-> FALSE],
                                  col, 3, wrap)
         IN  slide_down_outer([board |-> done.board, panicked |-> done.panicked], col + 1, wrap)

slide_down(m, wrap) == slide_down_outer([board |-> m, panicked |-> FALSE], 0, wrap)

\* one iteration of the inner loop of slide_left
slide_left_step(st, row, col, wrap) ==
    LET value == st.board[row][col]
        p_ind == st.potential_merge[1]
        sum == add_u8(st.board[row][p_ind], 1, wrap)
        merges == st.potential_merge # None /\ st.board[row][p_ind] = value
        st1 == IF merges
               THEN IF sum.overflow
                    THEN [st EXCEPT !.panicked = TRUE]
                    ELSE [st EXCEPT !.board = [st.board EXCEPT ![row][p_ind] = sum.value, ![row][col] = 0],
                                    !.first_empty = Some(col),
                                    !.potential_merge = None]
               ELSE st
        value2 == st1.board[row][col]
        target == st1.first_empty[1]
    IN  IF st1.panicked THEN st1
        ELSE IF value2 = 0 /\ st1.first_empty = None
        THEN [st1 EXCEPT !.first_empty = Some(col)]
        ELSE IF value2 # 0
             THEN IF st1.first_empty # None
                  THEN [st1 EXCEPT !.board = [st1.board EXCEPT ![row][target] = value2, ![row][col] = 0],
                                   !.first_empty = Some(target + 1),
                                   !.potential_merge = Some(target)]
                  ELSE [st1 EXCEPT !.potential_merge = Some(col)]
             ELSE st1

RECURSIVE slide_left_inner(_, _, _, _)
\* the inner loop of slide_left: for col in col..4
slide_left_inner(st, row, col, wrap) ==
    IF col >= 4 \/ st.panicked THEN st
    ELSE slide_left_inner(slide_left_step(st, row, col, wrap), row, col + 1, wrap)

RECURSIVE slide_left_outer(_, _, _)
\* the outer loop of slide_left: for row in row..4, both cursors start as None
slide_left_outer(st, row, wrap) ==
    IF row >= 4 \/ st.panicked THEN st
    ELSE LET done == slide_left_inner([board |-> st.board, first_empty |-> None,
                                   potential_merge |-> None, panicked |-> FALSE],
                                  row, 0, wrap)
         IN  slide_left_outer([board |-> done.board, panicked |-> done.panicked], row + 1, wrap)

slide_left(m, wrap) == slide_left_outer([board |-> m, panicked |-> FALSE], 0, wrap)

\* Matrix::slide: dispatch on the direction; returns nothing
Matrix_slide(m, d, wrap) ==
    CASE d = "Up" -> slide_up(m, wrap)
      [] d = "Right" -> slide_right(m, wrap)
      [] d = "Down" -> slide_down(m, wrap)
      [] d = "Left" -> slide_left(m, wrap)

\* impl From<MatrixBoard> for Matrix
Matrix_from_matrix(mb) == mb

\* From<ArrayBoard> for Matrix with one index repeated in the second row
Matrix_from_array_repeated(ab) == ArrayOf(<<
    ArrayOf(<< ab[0], ab[1], ab[2], ab[3] >>),
    ArrayOf(<< ab[4], ab[5], ab[6], ab[6] >>),
    ArrayOf(<< ab[8], ab[9], ab[10], ab[11] >>),
    ArrayOf(<< ab[12], ab[13], ab[14], ab[15] >>) >>)

\* impl From<ArrayBoard> for Matrix
Matrix_from_array(ab) == ArrayOf(<<
    ArrayOf(<< ab[0], ab[1], ab[2], ab[3] >>),
    ArrayOf(<< ab[4], ab[5], ab[6], ab[7] >>),
    ArrayOf(<< ab[8], ab[9], ab[10], ab[11] >>),
    ArrayOf(<< ab[12], ab[13], ab[14], ab[15] >>) >>)

\* Matrix::new
Matrix_new == [row \in Coords |-> [col \in Coords |-> 0]]

\* Matrix::as_matrix
Matrix_as_matrix(m) == m

\* Matrix::as_array
Matrix_as_array(m) == ArrayOf(<<
    m[0][0], m[0][1], m[0][2], m[0][3],
    m[1][0], m[1][1], m[1][2], m[1][3],
    m[2][0], m[2][1], m[2][2], m[2][3],
    m[3][0], m[3][1], m[3][2], m[3][3] >>)

RECURSIVE Matrix_random_scan_transposed(_, _, _, _, _)
\* the scan loops writing board[col][row] where they tested board[row][col]
Matrix_random_scan_transposed(m, rng, cur_ind, row, col) ==
    IF row >= BOARD_SIZE
    THEN [board |-> m, result |-> "Err", site |-> "after_loop", taken |-> 1]
    ELSE IF col >= BOARD_SIZE
         THEN Matrix_random_scan_transposed(m, rng, cur_ind, row + 1, 0)
         ELSE IF m[row][col] = 0
              THEN IF cur_ind = rng.ind
                   THEN [board |-> [m EXCEPT ![col][row] = new_rank(rng.val)],
                         result |-> "Ok", site |-> "loop", taken |-> 2]
                   ELSE Matrix_random_scan_transposed(m, rng, cur_ind + 1, row, col + 1)
              ELSE Matrix_random_scan_transposed(m, rng, cur_ind, row, col + 1)

RECURSIVE Matrix_random_scan(_, _, _, _, _)
\* the nested scan loops of Matrix::random from (row, col) on
Matrix_random_scan(m, rng, cur_ind, row, col) ==
    IF row >= BOARD_SIZE
    THEN [board |-> m, result |-> "Err", site |-> "after_loop", taken |-> 1]
    ELSE IF col >= BOARD_SIZE
         THEN Matrix_random_scan(m, rng, cur_ind, row + 1, 0)
         ELSE IF m[row][col] = 0
              THEN IF cur_ind = rng.ind
                   THEN [board |-> [m EXCEPT ![row][col] = new_rank(rng.val)],
                         result |-> "Ok", site |-> "loop", taken |-> 2]
                   ELSE Matrix_random_scan(m, rng, cur_ind + 1, row, col + 1)
              ELSE Matrix_random_scan(m, rng, cur_ind, row, col + 1)

\* Matrix::random
Matrix_random(m, rng) ==
    LET max == count_empty(Matrix_as_array(m), 16)
    IN  IF max = 0
        THEN [board |-> m, result |-> "Err", site |-> "guard", taken |-> 0]
        ELSE Matrix_random_scan(m, rng, 0, 0, 0)

-----------------------------------------------------------------------------
(* The boards the models are constructed from *)

Ranks == 0 .. MaxRank

\* the lines the specification's scenarios and the unit tests slide
ScenarioLines == {ArrayOf(<<2, 2, 0, 0>>), ArrayOf(<<1, 1, 2, 0>>),
                  ArrayOf(<<1, 2, 3, 4>>), ArrayOf(<<3, 0, 0, 3>>)}

\* a line of four cells, near edge first
Lines == [Coords -> Ranks] \cup ScenarioLines

\* a background without empty cells and without equal neighbours
Fill(row, col) == 1 + ((row + col) % 2)

\* the line in row 1 of the background
RowBoard(line) ==
    [i \in Cells |-> IF i \div BOARD_SIZE = 1 THEN line[i % BOARD_SIZE]
                     ELSE Fill(i \div BOARD_SIZE, i % BOARD_SIZE)]

\* the line in column 2 of the background
ColBoard(line) ==
    [i \in Cells |-> IF i % BOARD_SIZE = 2 THEN line[i \div BOARD_SIZE]
                     ELSE Fill(i \div BOARD_SIZE, i % BOARD_SIZE)]

\* boards of the unit tests and of the documentation of slide
TestBoards == {
    ArrayOf(<< 1, 1, 0, 0,   2, 0, 2, 0,   3, 0, 0, 3,   0, 0, 0, 0 >>),
    ArrayOf(<< 1, 1, 1, 1,   1, 1, 2, 0,   2, 1, 1, 0,   0, 0, 0, 0 >>),
    ArrayOf(<< 2, 1, 5, 2,   3, 1, 4, 2,   0, 0, 4, 2,   3, 0, 3, 2 >>) }

InitBoards ==
    {RowBoard(line) : line \in Lines} \cup {ColBoard(line) : line \in Lines}
        \cup TestBoards

\* the nested form of a flat board: cell (row, col) is flat cell row * 4 + col
Nested(ab) == [row \in Coords |-> [col \in Coords |-> ab[row * BOARD_SIZE + col]]]

NoDraw == [ind |-> -1, val |-> -1]

NoRet == [moved |-> None,
          array |-> [result |-> "-", site |-> "-", taken |-> 0],
          matrix |-> [result |-> "-", site |-> "-", taken |-> 0]]

-----------------------------------------------------------------------------
(* Construction *)

\* ArrayModel::new() and Matrix::new()
InitNew ==
    /\ board = ArrayModel_new
    /\ matrix = Matrix_new
    /\ old_board = [i \in Cells |-> 0]
    /\ old_matrix = Nested([i \in Cells |-> 0])
    /\ op = "new"

\* ArrayModel::from(ab) and Matrix::from(ab) of a flat board ab
InitFromArray ==
    \E ab \in InitBoards :
        /\ board = ArrayModel_from_array(ab)
        /\ matrix = Matrix_from_array(ab)
        /\ old_board = ab
        /\ old_matrix = Nested(ab)
        /\ op = "from_array"

\* ArrayModel::from(mb) and Matrix::from(mb) of a nested board mb
InitFromMatrix ==
    \E ab \in InitBoards :
        /\ board = ArrayModel_from_matrix(Nested(ab))
        /\ matrix = Matrix_from_matrix(Nested(ab))
        /\ old_board = ab
        /\ old_matrix = Nested(ab)
        /\ op = "from_matrix"

Init ==
    /\ (InitNew \/ InitFromArray \/ InitFromMatrix)
    /\ direction = "-"
    /\ draw = [array |-> NoDraw, matrix |-> NoDraw]
    /\ ret = NoRet
    /\ panicked = [array |-> FALSE, matrix |-> FALSE]
    /\ steps = 0

-----------------------------------------------------------------------------
(* Calls *)

Running == ~panicked.array /\ ~panicked.matrix

\* game.slide(d) on both models; wrap is the build's overflow behaviour
Slide(d) ==
    /\ Running
    /\ steps < MaxSteps
    /\ \E wrap \in BOOLEAN :
        LET a == ArrayModel_slide(board, d, wrap)
            m == Matrix_slide(matrix, d, wrap)
        IN  /\ board' = a.board
            /\ matrix' = m.board
            /\ ret' = [NoRet EXCEPT !.moved = a.ret]
            /\ panicked' = [array |-> a.panicked, matrix |-> m.panicked]
    /\ old_board' = board
    /\ old_matrix' = matrix
    /\ op' = "slide"
    /\ direction' = d
    /\ draw' = [array |-> NoDraw, matrix |-> NoDraw]
    /\ steps' = steps + 1

\* what the randomness source holds for a call of random on a board with max
\* empty cells: the answer to gen_range(0, max), then to gen_range(0, 10); on
\* a board without empty cells the one answer it would give if it were asked
RngFor(max) ==
    IF max = 0 THEN {[ind |-> 0, val |-> 0]}
    ELSE {[ind |-> i, val |-> v] : i \in gen_range(0, max), v \in gen_range(0, 10)}

\* the answers random took from the source, -1 for one it did not ask for
Taken(rng, r) ==
    [ind |-> IF r.taken >= 1 THEN rng.ind ELSE -1,
     val |-> IF r.taken >= 2 THEN rng.val ELSE -1]

\* game.random(&mut rng) on both models, each with a randomness source in the
\* same state: asked for the same range, both sources return the same value
Random ==
    /\ Running
    /\ steps < MaxSteps
    /\ LET amax == count_empty(board, 16)
           mmax == count_empty(Matrix_as_array(matrix), 16)
       IN  \E ra \in RngFor(amax) :
           \E rm \in (IF mmax = amax THEN {ra} ELSE RngFor(mmax)) :
               LET a == ArrayModel_random(board, ra)
                   m == Matrix_random(matrix, rm)
               IN  /\ board' = a.board
                   /\ matrix' = m.board
                   /\ ret' = [NoRet EXCEPT !.array = [result |-> a.result, site |-> a.site, taken |-> a.taken],
                                           !.matrix = [result |-> m.result, site |-> m.site, taken |-> m.taken]]
                   /\ draw' = [array |-> Taken(ra, a), matrix |-> Taken(rm, m)]
    /\ old_board' = board
    /\ old_matrix' = matrix
    /\ op' = "random"
    /\ direction' = "-"
    /\ panicked' = panicked
    /\ steps' = steps + 1

Next == (\E d \in Directions : Slide(d)) \/ Random

Spec == Init /\ [][Next]_vars

-----------------------------------------------------------------------------
(* Boards at the upper end of BoardElement *)

MaxTop == 1

\* 0 and the highest ranks a u8 cell can hold
TopRanks == {0} \cup ((U8_MAX - MaxTop) .. U8_MAX)

TopBoards ==
    {RowBoard(line) : line \in [Coords -> TopRanks]}
        \cup {ColBoard(line) : line \in [Coords -> TopRanks]}

\* ArrayModel::from(ab) and Matrix::from(ab) of a board holding top ranks
InitTop ==
    /\ \E ab \in TopBoards :
        /\ board = ArrayModel_from_array(ab)
        /\ matrix = Matrix_from_array(ab)
        /\ old_board = ab
        /\ old_matrix = Nested(ab)
    /\ op = "from_array"
    /\ direction = "-"
    /\ draw = [array |-> NoDraw, matrix |-> NoDraw]
    /\ ret = NoRet
    /\ panicked = [array |-> FALSE, matrix |-> FALSE]
    /\ steps = 0

SpecTop == InitTop /\ [][Next]_vars

-----------------------------------------------------------------------------
(* The caller's loop: slide, then random only if the slide reported moved *)

MaxCalls == 2

\* the last call was a slide that reported Some(true): the spawn is due
SpawnDue == op = "slide" /\ ret.moved = Some(TRUE)

\* game.slide(d) when no spawn is due
PlaySlide(d) ==
    /\ Running
    /\ steps < MaxCalls
    /\ ~SpawnDue
    /\ \E wrap \in BOOLEAN :
        LET a == ArrayModel_slide(board, d, wrap)
            m == Matrix_slide(matrix, d, wrap)
        IN  /\ board' = a.board
            /\ matrix' = m.board
            /\ ret' = [NoRet EXCEPT !.moved = a.ret]
            /\ panicked' = [array |-> a.panicked, matrix |-> m.panicked]
    /\ old_board' = board
    /\ old_matrix' = matrix
    /\ op' = "slide"
    /\ direction' = d
    /\ draw' = [array |-> NoDraw, matrix |-> NoDraw]
    /\ steps' = steps + 1

\* game.random(&mut rng) after a slide that reported Some(true)
PlayRandom ==
    /\ Running
    /\ steps < MaxCalls
    /\ SpawnDue
    /\ LET amax == count_empty(board, 16)
           mmax == count_empty(Matrix_as_array(matrix), 16)
       IN  \E ra \in RngFor(amax) :
           \E rm \in (IF mmax = amax THEN {ra} ELSE RngFor(mmax)) :
               LET a == ArrayModel_random(board, ra)
                   m == Matrix_random(matrix, rm)
               IN  /\ board' = a.board
                   /\ matrix' = m.board
                   /\ ret' = [NoRet EXCEPT !.array = [result |-> a.result, site |-> a.site, taken |-> a.taken],
                                           !.matrix = [result |-> m.result, site |-> m.site, taken |-> m.taken]]
                   /\ draw' = [array |-> Taken(ra, a), matrix |-> Taken(rm, m)]
    /\ old_board' = board
    /\ old_matrix' = matrix
    /\ op' = "random"
    /\ direction' = "-"
    /\ panicked' = panicked
    /\ steps' = steps + 1

NextPlay == (\E d \in Directions : PlaySlide(d)) \/ PlayRandom

SpecPlay == Init /\ [][NextPlay]_vars

-----------------------------------------------------------------------------
(* Slides repeated in one direction, without a spawn in between *)

MaxRepeat == 4

\* game.slide(d), every slide after the first in the direction of the first
RepeatSlide(d) ==
    /\ Running
    /\ steps < MaxRepeat
    /\ steps = 0 \/ direction = d
    /\ \E wrap \in BOOLEAN :
        LET a == ArrayModel_slide(board, d, wrap)
            m == Matrix_slide(matrix, d, wrap)
        IN  /\ board' = a.board
            /\ matrix' = m.board
            /\ ret' = [NoRet EXCEPT !.moved = a.ret]
            /\ panicked' = [array |-> a.panicked, matrix |-> m.panicked]
    /\ old_board' = board
    /\ old_matrix' = matrix
    /\ op' = "slide"
    /\ direction' = d
    /\ draw' = [array |-> NoDraw, matrix |-> NoDraw]
    /\ steps' = steps + 1

NextRepeat == \E d \in Directions : RepeatSlide(d)

SpecRepeat == Init /\ [][NextRepeat]_vars

-----------------------------------------------------------------------------
(* The reference the properties are stated against *)

\* the flat cells of line g for a direction, from the edge the tiles move
\* toward (near) to the opposite edge (far)
LineCells(d, g) ==
    CASE d = "Left" -> [k \in 1 .. 4 |-> g * 4 + (k - 1)]
      [] d = "Right" -> [k \in 1 .. 4 |-> g * 4 + (4 - k)]
      [] d = "Up" -> [k \in 1 .. 4 |-> (k - 1) * 4 + g]
      [] d = "Down" -> [k \in 1 .. 4 |-> (4 - k) * 4 + g]

\* line g of a flat board, near edge first
ReadLine(b, d, g) == [k \in 1 .. 4 |-> b[LineCells(d, g)[k]]]

\* the flat form of a nested board
Flat(m) == [i \in Cells |-> m[i \div 4][i % 4]]

IsTile(x) == x # 0

\* the tiles of a line, in near-to-far order
Tiles(line) == SelectSeq(line, IsTile)

RECURSIVE MergePairs(_)
\* scan from the near end, each pair of equal neighbours r,r becomes one r+1
\* and what a merge produced is not compared again
MergePairs(s) ==
    IF Len(s) < 2 THEN s
    ELSE IF s[1] = s[2]
         THEN << s[1] + 1 >> \o MergePairs(SubSeq(s, 3, Len(s)))
         ELSE << s[1] >> \o MergePairs(Tail(s))

\* zeros appended at the far end
Pad(s) == s \o [k \in 1 .. (4 - Len(s)) |-> 0]

RefLine(line) == Pad(MergePairs(Tiles(line)))

\* the board whose lines for direction d are the reference results
RefBoard(b, d) ==
    [i \in Cells |->
        LET g == CHOOSE g \in Coords : \E k \in 1 .. 4 : LineCells(d, g)[k] = i
            k == CHOOSE k \in 1 .. 4 : LineCells(d, g)[k] = i
        IN  RefLine(ReadLine(b, d, g))[k]]

\* the board with every line but line g (for direction d) emptied
OnlyLine(b, d, g) ==
    [i \in Cells |-> IF \E k \in 1 .. 4 : LineCells(d, g)[k] = i THEN b[i] ELSE 0]

CountRank(b, v) == Cardinality({i \in Cells : b[i] = v})

RECURSIVE Pow2(_)
Pow2(n) == IF n = 0 THEN 1 ELSE 2 * Pow2(n - 1)

RECURSIVE WeightUpTo(_, _)
\* the sum of 2^rank over the non-empty cells among the first n cells
WeightUpTo(b, n) ==
    IF n = 0 THEN 0
    ELSE WeightUpTo(b, n - 1) + (IF b[n - 1] = 0 THEN 0 ELSE Pow2(b[n - 1]))

Weight(b) == WeightUpTo(b, 16)

NumTiles(b) == Cardinality({i \in Cells : b[i] # 0})

\* the number of merges the reference makes on a board
RefMerges(b, d) == NumTiles(b) - NumTiles(RefBoard(b, d))

IsFull(b) == \A i \in Cells : b[i] # 0

SlideDone == op = "slide" /\ Running

-----------------------------------------------------------------------------
(* lib.rs: the ArrayModel of the crate root, whose cells hold the tile values *)

\* ArrayModel::new of lib.rs
Lib_new == [i \in Cells |-> 0]

\* ArrayModel::from_array of lib.rs: the board becomes the input
Lib_from_array(b, input) == [i \in Cells |-> input[i]]

\* ArrayModel::to_array of lib.rs
Lib_to_array(b) == [i \in Cells |-> b[i]]

\* the value add_to_random_empty stores for the draw from gen_range(0, 10)
Lib_new_value(val) == IF val > 5 THEN 4 ELSE 2

\* ArrayModel::add_to_random_empty of lib.rs. rng.cell is the element
\* choose_weighted_mut picks among those of weight 1, rng.val the answer to
\* gen_range(0, 10). With every weight 0 choose_weighted_mut returns Err and
\* the unwrap panics before anything is drawn or written.
Lib_add_to_random_empty(b, rng) ==
    IF \A i \in Cells : b[i] # 0
    THEN [board |-> b, panicked |-> TRUE, taken |-> 0]
    ELSE [board |-> [b EXCEPT ![rng.cell] = Lib_new_value(rng.val)],
          panicked |-> FALSE, taken |-> 2]

\* shift of lib.rs
Lib_shift(array, index) == shift(array, index)

\* one iteration of the inner loop of merge as array.rs has it, adding 1
Lib_merge_step_increment(st, index, inner_i, wrap) == merge_step(st, index, inner_i, wrap)

\* one iteration of the inner loop of merge of lib.rs, adding value
Lib_merge_step(st, index, inner_i, wrap) ==
    LET ind == index[inner_i]
        value == st.array[ind]
    IN  IF value = 0
        THEN [st EXCEPT !.stop = TRUE]
        ELSE IF st.mergeable # None
             THEN LET merge_to == st.mergeable[1]
                      prev_ind == index[merge_to]
                      prev_value == st.array[prev_ind]
                      sum == add_u8(prev_value, value, wrap)
                  IN  IF value = prev_value /\ merge_to + 1 = inner_i
                      THEN IF sum.overflow
                           THEN [st EXCEPT !.panicked = TRUE]
                           ELSE [st EXCEPT !.array = [st.array EXCEPT ![prev_ind] = sum.value, ![ind] = 0],
                                           !.mergeable = None]
                      ELSE [st EXCEPT !.mergeable = Some(inner_i)]
             ELSE [st EXCEPT !.mergeable = Some(inner_i)]

RECURSIVE Lib_merge_inner(_, _, _, _, _)
\* the inner loop of merge of lib.rs
Lib_merge_inner(st, index, from, to, wrap) ==
    IF from >= to \/ st.stop \/ st.panicked THEN st
    ELSE Lib_merge_inner(Lib_merge_step(st, index, from, wrap), index, from + 1, to, wrap)

RECURSIVE Lib_merge_outer(_, _, _, _)
\* the outer loop of merge of lib.rs
Lib_merge_outer(st, index, outer_i, wrap) ==
    IF outer_i >= 16 \/ st.panicked THEN st
    ELSE LET line == Lib_merge_inner([array |-> st.array, mergeable |-> None,
                                      stop |-> FALSE, panicked |-> FALSE],
                                     index, outer_i, outer_i + 4, wrap)
         IN  Lib_merge_outer([array |-> line.array, panicked |-> line.panicked],
                             index, outer_i + 4, wrap)

Lib_merge(array, index, wrap) ==
    Lib_merge_outer([array |-> array, panicked |-> FALSE], index, 0, wrap)

\* the body the four moves share: shift, merge, shift over their index
Lib_move(b, index, wrap) ==
    LET shifted == Lib_shift(b, index)
        merged == Lib_merge(shifted, index, wrap)
    IN  IF merged.panicked
        THEN [board |-> merged.array, panicked |-> TRUE]
        ELSE [board |-> Lib_shift(merged.array, index), panicked |-> FALSE]

Lib_move_left(b, wrap) ==
    Lib_move(b, ArrayOf(<<
        0, 1, 2, 3,
        4, 5, 6, 7,
        8, 9, 10, 11,
        12, 13, 14, 15 >>), wrap)

Lib_move_right(b, wrap) ==
    Lib_move(b, ArrayOf(<<
        3, 2, 1, 0,
        7, 6, 5, 4,
        11, 10, 9, 8,
        15, 14, 13, 12 >>), wrap)

Lib_move_up(b, wrap) ==
    Lib_move(b, ArrayOf(<<
        0, 4, 8, 12,
        1, 5, 9, 13,
        2, 6, 10, 14,
        3, 7, 11, 15 >>), wrap)

Lib_move_down(b, wrap) ==
    Lib_move(b, ArrayOf(<<
        12, 8, 4, 0,
        13, 9, 5, 1,
        14, 10, 6, 2,
        15, 11, 7, 3 >>), wrap)

\* the tile value of a rank
LibValue(r) == IF r = 0 THEN 0 ELSE Pow2(r)

\* the board of the documentation of move_left and the board of the test
\* ignores_non_zero_squares
LibTestBoards == {
    ArrayOf(<< 4, 0, 4, 2,   0, 0, 1, 1,   4, 8, 8, 16,   2, 2, 2, 2 >>),
    ArrayOf(<< 64, 32, 16, 8,   0, 0, 0, 0,   0, 0, 0, 0,   0, 0, 0, 0 >>) }

\* the boards of InitBoards with the tile values in place of the ranks
LibBoards == {[i \in Cells |-> LibValue(ab[i])] : ab \in InitBoards} \cup LibTestBoards

\* ArrayModel::new() of lib.rs, alone or followed by from_array(input). The
\* crate root has no Matrix: matrix and old_matrix stay empty.
InitLib ==
    /\ \/ /\ board = Lib_new
          /\ old_board = Lib_new
          /\ op = "new"
       \/ \E input \in LibBoards :
            /\ board = Lib_from_array(Lib_new, input)
            /\ old_board = input
            /\ op = "from_array"
    /\ matrix = Matrix_new
    /\ old_matrix = Matrix_new
    /\ direction = "-"
    /\ draw = [array |-> NoDraw, matrix |-> NoDraw]
    /\ ret = NoRet
    /\ panicked = [array |-> FALSE, matrix |-> FALSE]
    /\ steps = 0

\* game.move_left(), move_right(), move_up() or move_down()
LibMove(d) ==
    /\ Running
    /\ steps < MaxSteps
    /\ \E wrap \in BOOLEAN :
        LET a == CASE d = "Left" -> Lib_move_left(board, wrap)
                   [] d = "Right" -> Lib_move_right(board, wrap)
                   [] d = "Up" -> Lib_move_up(board, wrap)
                   [] d = "Down" -> Lib_move_down(board, wrap)
        IN  /\ board' = a.board
            /\ panicked' = [panicked EXCEPT !.array = a.panicked]
    /\ old_board' = board
    /\ op' = "move"
    /\ direction' = d
    /\ draw' = [array |-> NoDraw, matrix |-> NoDraw]
    /\ ret' = NoRet
    /\ steps' = steps + 1
    /\ UNCHANGED << matrix, old_matrix >>

\* what the randomness source holds for add_to_random_empty: the element
\* choose_weighted_mut picks, one of the empty cells, and the answer to
\* gen_range(0, 10)
LibRngFor(b) ==
    {[cell |-> c, val |-> v] :
        c \in (IF \A i \in Cells : b[i] # 0 THEN {0} ELSE {i \in Cells : b[i] = 0}),
        v \in gen_range(0, 10)}

\* game.add_to_random_empty(&mut rng)
LibAdd ==
    /\ Running
    /\ steps < MaxSteps
    /\ \E rng \in LibRngFor(board) :
        LET a == Lib_add_to_random_empty(board, rng)
        IN  /\ board' = a.board
            /\ panicked' = [panicked EXCEPT !.array = a.panicked]
            /\ draw' = [array |-> [ind |-> IF a.taken >= 1 THEN rng.cell ELSE -1,
                                   val |-> IF a.taken >= 2 THEN rng.val ELSE -1],
                        matrix |-> NoDraw]
    /\ old_board' = board
    /\ op' = "add_to_random_empty"
    /\ direction' = "-"
    /\ ret' = NoRet
    /\ steps' = steps + 1
    /\ UNCHANGED << matrix, old_matrix >>

NextLib == (\E d \in Directions : LibMove(d)) \/ LibAdd

SpecLib == InitLib /\ [][NextLib]_vars

-----------------------------------------------------------------------------
(* Properties *)

\* C1: after ArrayModel::slide every line, read near edge to far edge, is the
\* reference result of the line before: its tiles in order, each pair of equal
\* neighbours merged once into the successor rank, padded with zeros.
C1_SlideMatchesReference ==
    SlideDone =>
        \A g \in Coords :
            ReadLine(board, direction, g) = RefLine(ReadLine(old_board, direction, g))

\* a slide of a board holding a line with two pairs, both merged
C1_Witness ==
    /\ SlideDone
    /\ \E g \in Coords :
        /\ ReadLine(old_board, direction, g) = << 1, 1, 2, 2 >>
        /\ ReadLine(board, direction, g) = << 2, 3, 0, 0 >>

\* C2: built from the same board and slid in the same direction, Matrix and
\* ArrayModel have the same as_array().
C2_SlideSameAsArray ==
    (SlideDone /\ Matrix_as_array(old_matrix) = ArrayModel_as_array(old_board)) =>
        Matrix_as_array(matrix) = ArrayModel_as_array(board)

\* C3: ArrayModel::slide returns Some(true) exactly when some cell differs
\* from the board before, and None exactly when no cell does.
C3_MovedIffChanged ==
    SlideDone =>
        /\ ret.moved = Some(TRUE) <=> (\E i \in Cells : board[i] # old_board[i])
        /\ ret.moved = None <=> (\A i \in Cells : board[i] = old_board[i])

\* a slide that only merged (no tile had a gap before it) and reported moved
C3_Witness ==
    /\ SlideDone
    /\ ret.moved = Some(TRUE)
    /\ \E g \in Coords : ReadLine(old_board, direction, g) = << 1, 1, 0, 0 >>
    /\ \A g \in Coords : Tiles(ReadLine(old_board, direction, g)) \o
                            [k \in 1 .. (4 - Len(Tiles(ReadLine(old_board, direction, g)))) |-> 0]
                         = ReadLine(old_board, direction, g)

\* what C4 demands of a line before and after a slide
NoChainMerge(before, after) ==
    /\ (Len(Tiles(before)) = 3 /\ Tiles(before)[1] = Tiles(before)[2]
            /\ Tiles(before)[2] = Tiles(before)[3]) =>
         after = << Tiles(before)[1] + 1, Tiles(before)[1], 0, 0 >>
    /\ before = << 1, 1, 2, 0 >> => after = << 2, 2, 0, 0 >>

\* C4: in both models a line of three equal ranks r,r,r (with any empty
\* cells) ends as r+1,r,0,0 and the line 1,1,2,0 ends as 2,2,0,0.
C4_NoChainMerge ==
    SlideDone =>
        \A g \in Coords :
            /\ NoChainMerge(ReadLine(old_board, direction, g), ReadLine(board, direction, g))
            /\ NoChainMerge(ReadLine(Flat(old_matrix), direction, g),
                            ReadLine(Flat(matrix), direction, g))

\* positions i < j of a line holding two tiles of equal rank with one or more
\* empty cells and nothing else between them
GapPairs(line) ==
    {p \in (1 .. 4) \X (1 .. 4) :
        /\ p[1] + 1 < p[2]
        /\ line[p[1]] # 0
        /\ line[p[1]] = line[p[2]]
        /\ \A k \in (p[1] + 1) .. (p[2] - 1) : line[k] = 0}

\* the two tiles at p have become a single tile of the successor rank: the
\* tiles of the line after are those before p, the merged tile, those after p
MergedAt(before, after, p) ==
    Tiles(after) = MergePairs(Tiles(SubSeq(before, 1, p[1] - 1)))
                      \o << before[p[1]] + 1 >>
                      \o MergePairs(Tiles(SubSeq(before, p[2] + 1, 4)))

\* C5 as stated: in both models, two tiles of equal rank separated only by
\* empty cells have become a single tile of the successor rank after a slide
\* along their line.
C5_GapPairMerges ==
    SlideDone =>
        \A g \in Coords :
            /\ \A p \in GapPairs(ReadLine(old_board, direction, g)) :
                 MergedAt(ReadLine(old_board, direction, g), ReadLine(board, direction, g), p)
            /\ \A p \in GapPairs(ReadLine(Flat(old_matrix), direction, g)) :
                 MergedAt(ReadLine(Flat(old_matrix), direction, g),
                          ReadLine(Flat(matrix), direction, g), p)

\* the pairs of GapPairs with no tile of the same rank before them in the line
FreeGapPairs(line) ==
    {p \in GapPairs(line) : \A k \in 1 .. (p[1] - 1) : line[k] # line[p[1]]}

\* C5 amended: in both models, two tiles of equal rank r separated only by
\* empty cells, with no tile of rank r before them in the line, have become a
\* single tile of rank r+1 after a slide along their line.
C5_FreeGapPairMerges ==
    SlideDone =>
        \A g \in Coords :
            /\ \A p \in FreeGapPairs(ReadLine(old_board, direction, g)) :
                 MergedAt(ReadLine(old_board, direction, g), ReadLine(board, direction, g), p)
            /\ \A p \in FreeGapPairs(ReadLine(Flat(old_matrix), direction, g)) :
                 MergedAt(ReadLine(Flat(old_matrix), direction, g),
                          ReadLine(Flat(matrix), direction, g), p)

\* a slide of a line r,0,0,r, in both models
C5_Witness ==
    /\ SlideDone
    /\ \E g \in Coords :
        /\ ReadLine(old_board, direction, g) = << 2, 0, 0, 2 >>
        /\ ReadLine(Flat(old_matrix), direction, g) = << 2, 0, 0, 2 >>
        /\ ReadLine(board, direction, g) = << 3, 0, 0, 0 >>

\* what C6 demands of a board before and after a slide in direction d
Conserved(before, after, d) ==
    /\ \A v \in ({before[i] : i \in Cells} \cup {after[i] : i \in Cells}) \ {0} :
         CountRank(after, v) = CountRank(RefBoard(before, d), v)
    /\ Weight(after) = Weight(before)
    /\ NumTiles(after) = NumTiles(before) - RefMerges(before, d)

\* C6: a slide conserves the tiles: the non-zero ranks after are those before
\* with each merged pair r,r replaced by one r+1, the sum of 2^rank is
\* unchanged and the number of tiles drops by the number of merges.
C6_Conservation ==
    SlideDone =>
        /\ Conserved(old_board, board, direction)
        /\ Conserved(Flat(old_matrix), Flat(matrix), direction)

\* a slide that merged two pairs in one line and moved other tiles
C6_Witness ==
    /\ SlideDone
    /\ NumTiles(board) <= NumTiles(old_board) - 2
    /\ NumTiles(Flat(matrix)) <= NumTiles(Flat(old_matrix)) - 2

\* C7: each line of the result depends only on the same line of the input:
\* it is what the slide makes of that line on an otherwise empty board.
C7_LinesIndependent ==
    SlideDone =>
        \A g \in Coords :
            /\ ReadLine(board, direction, g)
                 = ReadLine(ArrayModel_slide(OnlyLine(old_board, direction, g), direction, TRUE).board,
                            direction, g)
            /\ ReadLine(Flat(matrix), direction, g)
                 = ReadLine(Flat(Matrix_slide(Nested(OnlyLine(Flat(old_matrix), direction, g)),
                                              direction, TRUE).board),
                            direction, g)
            /\ (\A k \in 1 .. 4 : ReadLine(old_board, direction, g)[k] = 0) =>
                 (\A k \in 1 .. 4 : ReadLine(board, direction, g)[k] = 0)
            /\ (\A k \in 1 .. 4 : ReadLine(Flat(old_matrix), direction, g)[k] = 0) =>
                 (\A k \in 1 .. 4 : ReadLine(Flat(matrix), direction, g)[k] = 0)

\* a slide that changed one line next to an all-empty line and a full line
C7_Witness ==
    /\ SlideDone
    /\ \E g, h, e \in Coords :
        /\ ReadLine(old_board, direction, g) # ReadLine(board, direction, g)
        /\ \A k \in 1 .. 4 : ReadLine(old_board, direction, e)[k] = 0
        /\ \A k \in 1 .. 4 : ReadLine(old_board, direction, h)[k] # 0

\* no empty cell before a tile and no two equal neighbouring tiles
Settled(line) ==
    /\ \A k \in 1 .. 3 : line[k] = 0 => line[k + 1] = 0
    /\ \A k \in 1 .. 3 : line[k] # 0 => line[k] # line[k + 1]

\* C8: when every line of the board is packed against the near edge without
\* equal neighbours, ArrayModel::slide changes no cell and returns None.
C8_NoOpSlide ==
    (SlideDone /\ \A g \in Coords : Settled(ReadLine(old_board, direction, g))) =>
        /\ \A i \in Cells : board[i] = old_board[i]
        /\ ret.moved = None

\* a slide of a board holding the full line 1,2,3,4 whose lines are all settled
C8_Witness ==
    /\ SlideDone
    /\ \A g \in Coords : Settled(ReadLine(old_board, direction, g))
    /\ \E g \in Coords : ReadLine(old_board, direction, g) = << 1, 2, 3, 4 >>

RandomDone == op = "random"

\* C9: on a board without a zero cell random returns Err(NoEmptyError) and
\* leaves all 16 cells as they were, in both models.
C9_FullBoardErr ==
    RandomDone =>
        /\ IsFull(old_board) =>
             (ret.array.result = "Err" /\ \A i \in Cells : board[i] = old_board[i])
        /\ IsFull(Flat(old_matrix)) =>
             (ret.matrix.result = "Err" /\ \A i \in Cells : Flat(matrix)[i] = Flat(old_matrix)[i])

\* random was called on a board without a zero cell
C9_Witness ==
    /\ RandomDone
    /\ IsFull(old_board)
    /\ IsFull(Flat(old_matrix))
    /\ ret.array.result = "Err"

\* C10: random returns Err(NoEmptyError) exactly when the board has no zero
\* cell, whatever the randomness source returns, and never from the return
\* after the scan loop; in both models.
C10_ErrIffFull ==
    RandomDone =>
        /\ ret.array.result = "Err" <=> IsFull(old_board)
        /\ ret.array.result = "Ok" <=> ~IsFull(old_board)
        /\ ret.array.site # "after_loop"
        /\ ret.matrix.result = "Err" <=> IsFull(Flat(old_matrix))
        /\ ret.matrix.result = "Ok" <=> ~IsFull(Flat(old_matrix))
        /\ ret.matrix.site # "after_loop"

\* random succeeded with the largest index the source can return, on a board
\* with several empty cells
C10_Witness ==
    /\ RandomDone
    /\ NumTiles(old_board) <= 14
    /\ draw.array.ind = 15 - NumTiles(old_board)
    /\ draw.matrix.ind = 15 - NumTiles(Flat(old_matrix))
    /\ ret.array.result = "Ok"
    /\ ret.matrix.result = "Ok"

\* the cells in which two flat boards differ
Changed(before, after) == {i \in Cells : before[i] # after[i]}

\* C11 for one model: a successful random changed exactly one cell, which
\* held 0 and now holds rank 1 or rank 2
OneSpawn(before, after) ==
    /\ Cardinality(Changed(before, after)) = 1
    /\ \A i \in Changed(before, after) : before[i] = 0 /\ after[i] \in {1, 2}
    /\ \A i \in Cells : before[i] # 0 => after[i] = before[i]

\* C11: whenever random returns Ok exactly one cell differs from the board
\* before, it held 0, it holds rank 1 or 2 now, and no cell that was non-zero
\* changed; in both models.
C11_OkChangesOneCell ==
    RandomDone =>
        /\ ret.array.result = "Ok" => OneSpawn(old_board, board)
        /\ ret.matrix.result = "Ok" => OneSpawn(Flat(old_matrix), Flat(matrix))

\* a successful random that stored the high rank on a board with tiles
C11_Witness ==
    /\ RandomDone
    /\ ret.array.result = "Ok"
    /\ ret.matrix.result = "Ok"
    /\ NumTiles(old_board) >= 12
    /\ \E i \in Cells : old_board[i] = 0 /\ board[i] = 2 /\ Flat(matrix)[i] = 2

\* C12 for one model: the one empty cell is filled and nothing else changed
OnlyCellFilled(before, after, result) ==
    /\ result = "Ok"
    /\ \A i \in Cells : IF before[i] = 0 THEN after[i] # 0 ELSE after[i] = before[i]

\* C12: on a board with exactly one zero cell random returns Ok, writes a
\* non-zero rank into that cell and changes no other cell, whatever the
\* randomness source returns; in both models.
C12_SingleEmptyCell ==
    RandomDone =>
        /\ NumTiles(old_board) = 15 => OnlyCellFilled(old_board, board, ret.array.result)
        /\ NumTiles(Flat(old_matrix)) = 15 =>
             OnlyCellFilled(Flat(old_matrix), Flat(matrix), ret.matrix.result)

\* random was called on a board with exactly one zero cell
C12_Witness ==
    /\ RandomDone
    /\ NumTiles(old_board) = 15
    /\ NumTiles(Flat(old_matrix)) = 15
    /\ draw.array.val = 9
    /\ NumTiles(board) = 16

\* the number of empty cells before cell i in row-major order
EmptyBefore(b, i) == Cardinality({j \in Cells : j < i /\ b[j] = 0})

\* the cells ArrayModel::random writes when the first draw is k
ArrayTargets(b, k) == Changed(b, ArrayModel_random(b, [ind |-> k, val |-> 0]).board)

\* the cells Matrix::random writes when the first draw is k
MatrixTargets(b, k) == Changed(b, Flat(Matrix_random(Nested(b), [ind |-> k, val |-> 0]).board))

\* C13: when the first draw returns k, random writes into the (k+1)-th empty
\* cell in row-major order; every empty cell of the board is selected by
\* exactly one k in [0, count); in both models.
C13_KthEmptyCell ==
    (RandomDone /\ ret.array.result = "Ok" /\ ret.matrix.result = "Ok") =>
        /\ \A i \in Changed(old_board, board) : EmptyBefore(old_board, i) = draw.array.ind
        /\ \A i \in Changed(Flat(old_matrix), Flat(matrix)) :
             EmptyBefore(Flat(old_matrix), i) = draw.matrix.ind
        /\ \A i \in Cells : old_board[i] = 0 =>
             Cardinality({k \in gen_range(0, 16 - NumTiles(old_board)) :
                            ArrayTargets(old_board, k) = {i}}) = 1
        /\ \A i \in Cells : Flat(old_matrix)[i] = 0 =>
             Cardinality({k \in gen_range(0, 16 - NumTiles(Flat(old_matrix))) :
                            MatrixTargets(Flat(old_matrix), k) = {i}}) = 1

\* random wrote the third of several empty cells, with a tile between the
\* empty cells before it
C13_Witness ==
    /\ RandomDone
    /\ draw.array.ind = 2
    /\ draw.matrix.ind = 2
    /\ \E i \in Cells :
        /\ Changed(old_board, board) = {i}
        /\ Changed(Flat(old_matrix), Flat(matrix)) = {i}
        /\ \E j \in Cells : j < i /\ old_board[j] # 0
        /\ EmptyBefore(old_board, i) = 2

\* the second draws for which random, with the first draw k, leaves rank r in
\* the cell it writes
ValuesStoring(b, k, r) ==
    {v \in gen_range(0, 10) :
        \A i \in ArrayTargets(b, k) : ArrayModel_random(b, [ind |-> k, val |-> v]).board[i] = r}

\* C14: of the ten values of the second draw exactly nine make random store
\* rank 1 and exactly one makes it store rank 2, the ranks being one apart.
C14_NineToOne ==
    (RandomDone /\ ret.array.result = "Ok" /\ ret.matrix.result = "Ok") =>
        /\ Cardinality(ValuesStoring(old_board, draw.array.ind, 1)) = 9
        /\ Cardinality(ValuesStoring(old_board, draw.array.ind, 2)) = 1
        /\ \A i \in Changed(old_board, board) :
             board[i] = (IF draw.array.val \in ValuesStoring(old_board, draw.array.ind, 2)
                         THEN 2 ELSE 1)
        /\ \A i \in Changed(Flat(old_matrix), Flat(matrix)) :
             Flat(matrix)[i] = (IF draw.matrix.val \in ValuesStoring(old_board, draw.array.ind, 2)
                                THEN 2 ELSE 1)

\* random stored the low rank for the largest second draw that selects it
C14_Witness ==
    /\ RandomDone
    /\ ret.array.result = "Ok"
    /\ draw.array.val = 8
    /\ \E i \in Cells : old_board[i] = 0 /\ board[i] = 1 /\ Flat(matrix)[i] = 1

\* C15: construction followed by extraction returns the input: from a flat
\* board through as_array(), from a nested board through as_matrix(), for
\* both models.
C15_RoundTrip ==
    /\ op = "from_array" =>
         /\ Matrix_as_array(matrix) = old_board
         /\ ArrayModel_as_array(board) = old_board
    /\ op = "from_matrix" =>
         /\ ArrayModel_as_matrix(board) = old_matrix
         /\ Matrix_as_matrix(matrix) = old_matrix

\* a model built from a nested board that differs from its transpose and
\* whose rows differ from each other
C15_Witness ==
    /\ op = "from_matrix"
    /\ old_matrix[1][2] # old_matrix[2][1]
    /\ old_matrix[1][2] # old_matrix[1][3]
    /\ old_matrix[0] # old_matrix[2]

\* C16: in every state the nested view of a model is its flat view in
\* row-major order, for both models.
C16_ViewsAgree ==
    \A row \in Coords : \A col \in Coords :
        /\ ArrayModel_as_matrix(board)[row][col] = ArrayModel_as_array(board)[row * 4 + col]
        /\ Matrix_as_matrix(matrix)[row][col] = Matrix_as_array(matrix)[row * 4 + col]

\* a state after a slide that changed a board which differs from its transpose
C16_Witness ==
    /\ SlideDone
    /\ board # old_board
    /\ matrix # old_matrix
    /\ board[1] # board[4]
    /\ matrix[0][1] # matrix[1][0]

\* C17: a slide completes for every rank a u8 holds, two tiles of rank 255
\* included: it does not abort, and every merge result is the successor rank,
\* not a wrapped value: the ArrayModel lines are the reference results and the
\* tiles of the Matrix lines are the reference tiles.
C17_SlideTotal ==
    op = "slide" =>
        /\ ~panicked.array
        /\ ~panicked.matrix
        /\ \A g \in Coords :
            /\ ReadLine(board, direction, g) = RefLine(ReadLine(old_board, direction, g))
            /\ Tiles(ReadLine(Flat(matrix), direction, g))
                 = MergePairs(Tiles(ReadLine(Flat(old_matrix), direction, g)))

\* C18: an operation that did not complete successfully, a random returning
\* Err or a slide that aborted, leaves the grid as it was before the call.
C18_FailureLeavesGrid ==
    /\ (op = "random" /\ ret.array.result = "Err") => board = old_board
    /\ (op = "random" /\ ret.matrix.result = "Err") => matrix = old_matrix
    /\ (op = "slide" /\ panicked.array) => board = old_board
    /\ (op = "slide" /\ panicked.matrix) => matrix = old_matrix

\* the left-right mirror, the top-bottom mirror and the transpose of a flat board
MirrorLR(b) == [i \in Cells |-> b[(i \div 4) * 4 + (3 - (i % 4))]]

MirrorTB(b) == [i \in Cells |-> b[(3 - (i \div 4)) * 4 + (i % 4)]]

Transpose(b) == [i \in Cells |-> b[(i % 4) * 4 + (i \div 4)]]

\* the flat board ArrayModel::slide leaves
ArraySlid(b, d) == ArrayModel_slide(b, d, TRUE).board

\* the flat board Matrix::slide leaves
MatrixSlid(b, d) == Flat(Matrix_slide(Nested(b), d, TRUE).board)

\* C19 for one model: the result of the slide that was made is the image of
\* the result of the related slide on the image of the board before
SlideBySymmetry(before, after, d, ArraySlidOrMatrixSlid(_, _)) ==
    /\ d = "Right" => after = MirrorLR(ArraySlidOrMatrixSlid(MirrorLR(before), "Left"))
    /\ d = "Up" => after = Transpose(ArraySlidOrMatrixSlid(Transpose(before), "Left"))
    /\ d = "Down" => after = MirrorTB(ArraySlidOrMatrixSlid(MirrorTB(before), "Up"))
    /\ d = "Left" => after = MirrorLR(ArraySlidOrMatrixSlid(MirrorLR(before), "Right"))

\* C19: the directions differ only by traversal order: slide(Right) is the
\* left-right mirror of slide(Left) on the mirrored board, slide(Up) the
\* transpose of slide(Left) on the transposed board, slide(Down) the
\* top-bottom mirror of slide(Up) on the mirrored board; in both models.
C19_DirectionsBySymmetry ==
    SlideDone =>
        /\ SlideBySymmetry(old_board, board, direction, ArraySlid)
        /\ SlideBySymmetry(Flat(old_matrix), Flat(matrix), direction, MatrixSlid)

\* a slide down that merged in a column and moved tiles over a gap
C19_Witness ==
    /\ SlideDone
    /\ direction = "Down"
    /\ NumTiles(board) < NumTiles(old_board)
    /\ old_board # MirrorTB(old_board)
    /\ board # MirrorTB(board)
    /\ \E i \in Cells : old_board[i] = 0 /\ board[i] # 0

\* C20: started from the same board and given the same draws, Matrix::random
\* and ArrayModel::random return the same Ok or Err and leave the same
\* as_array().
C20_RandomInterchangeable ==
    (RandomDone /\ Matrix_as_array(old_matrix) = ArrayModel_as_array(old_board)
        /\ draw.matrix = draw.array) =>
        /\ ret.matrix.result = ret.array.result
        /\ Matrix_as_array(matrix) = ArrayModel_as_array(board)

\* both models spawned from the same board with several empty cells, not in
\* the first of them
C20_Witness ==
    /\ RandomDone
    /\ Matrix_as_array(old_matrix) = ArrayModel_as_array(old_board)
    /\ draw.matrix = draw.array
    /\ draw.array.ind >= 1
    /\ ret.array.result = "Ok"
    /\ board # old_board
    /\ old_board # Transpose(old_board)

\* C21: a newly created model is empty: after ArrayModel::new() and
\* Matrix::new() all 16 cells are 0 in the flat and in the nested view, and
\* the board of the ArrayModel::new() of lib.rs is all 0.
C21_NewIsEmpty ==
    op = "new" =>
        /\ \A i \in Cells :
            /\ ArrayModel_as_array(board)[i] = 0
            /\ Matrix_as_array(matrix)[i] = 0
            /\ Lib_to_array(Lib_new)[i] = 0
        /\ \A row \in Coords : \A col \in Coords :
            /\ ArrayModel_as_matrix(board)[row][col] = 0
            /\ Matrix_as_matrix(matrix)[row][col] = 0

\* the state right after new(), before any call
C21_Witness ==
    /\ op = "new"
    /\ steps = 0
    /\ direction = "-"
    /\ Running

\* the draws for which add_to_random_empty of lib.rs, writing cell c of
\* board b, stores the value x
LibValuesStoring(b, c, x) ==
    {v \in gen_range(0, 10) :
        Lib_add_to_random_empty(b, [cell |-> c, val |-> v]).board[c] = x}

\* C22: of the ten values of the draw in [0, 10) exactly nine make
\* add_to_random_empty of lib.rs store 2 and exactly one makes it store 4.
C22_LibNineToOne ==
    (op = "add_to_random_empty" /\ ~panicked.array) =>
        /\ Cardinality(LibValuesStoring(old_board, draw.array.ind, 2)) = 9
        /\ Cardinality(LibValuesStoring(old_board, draw.array.ind, 4)) = 1

\* C23: add_to_random_empty of lib.rs on a board without a 0 returns to its
\* caller, which can see the no-empty-cell condition, and leaves the board
\* unchanged; on a board with a 0 it changes exactly one cell, which held 0.
C23_LibFullBoard ==
    op = "add_to_random_empty" =>
        /\ IsFull(old_board) => (~panicked.array /\ board = old_board)
        /\ ~IsFull(old_board) =>
             /\ Cardinality(Changed(old_board, board)) = 1
             /\ \A i \in Changed(old_board, board) : old_board[i] = 0

RECURSIVE LibMergePairs(_)
\* scan from the near end, each pair of equal neighbours v,v becomes one 2v
\* and what a merge produced is not compared again
LibMergePairs(s) ==
    IF Len(s) < 2 THEN s
    ELSE IF s[1] = s[2]
         THEN << 2 * s[1] >> \o LibMergePairs(SubSeq(s, 3, Len(s)))
         ELSE << s[1] >> \o LibMergePairs(Tail(s))

LibRefLine(line) == Pad(LibMergePairs(Tiles(line)))

\* C24: after move_left, move_right, move_up or move_down of lib.rs every
\* line, read near edge to far edge, is its non-zero values in order with each
\* pair of adjacent equal values v,v replaced by one 2v, padded with zeros.
C24_LibMoveMatchesReference ==
    (op = "move" /\ Running) =>
        \A g \in Coords :
            ReadLine(board, direction, g) = LibRefLine(ReadLine(old_board, direction, g))

\* move_left of the board of its documentation: 4,0,4,2 became 8,2,0,0 and
\* 2,2,2,2 became 4,4,0,0
C24_Witness ==
    /\ op = "move"
    /\ Running
    /\ direction = "Left"
    /\ ReadLine(old_board, "Left", 0) = << 4, 0, 4, 2 >>
    /\ ReadLine(old_board, "Left", 3) = << 2, 2, 2, 2 >>
    /\ ReadLine(board, "Left", 0) = << 8, 2, 0, 0 >>
    /\ ReadLine(board, "Left", 3) = << 4, 4, 0, 0 >>

\* no empty cell precedes a non-empty cell in near-to-far order
Packed(line) == \A k \in 1 .. 3 : line[k] = 0 => line[k + 1] = 0

\* C25: after ArrayModel::slide every line is packed against the near edge:
\* no empty cell precedes a non-empty cell in near-to-far order.
C25_ArrayNoGaps ==
    SlideDone => \A g \in Coords : Packed(ReadLine(board, direction, g))

\* a slide whose merge left a gap in front of further tiles for the last shift
\* to close
C25_Witness ==
    /\ SlideDone
    /\ \E g \in Coords :
        /\ ReadLine(old_board, direction, g) = << 1, 0, 1, 3 >>
        /\ ReadLine(board, direction, g) = << 2, 3, 0, 0 >>

\* C26: after Matrix::slide every line is packed against the near edge, lines
\* where a merge happened across an empty cell and further tiles follow
\* included.
C26_MatrixNoGaps ==
    SlideDone => \A g \in Coords : Packed(ReadLine(Flat(matrix), direction, g))

\* C27: the index table of each direction slid (UP_INDEX, RIGHT_INDEX,
\* DOWN_INDEX, LEFT_INDEX) is a permutation of 0..15 whose four consecutive
\* groups of four are the four lines of its direction, each listed from the
\* edge the tiles move toward to the opposite edge.
C27_IndexTables ==
    SlideDone =>
        /\ {IndexOf(direction)[i] : i \in Cells} = Cells
        /\ \A g \in Coords : \A k \in 1 .. 4 :
             IndexOf(direction)[g * 4 + (k - 1)] = LineCells(direction, g)[k]

\* a slide up that took a tile from the bottom row, the far end of UP_INDEX's
\* groups
C27_Witness ==
    /\ SlideDone
    /\ direction = "Up"
    /\ ret.moved = Some(TRUE)
    /\ \E i \in Cells : i >= 12 /\ old_board[i] # 0 /\ board[i] = 0

\* C28 for one model: nothing taken on Err; on Ok two draws, the cell index
\* below the number of empty cells and then the value below 10
DrawsTaken(before, r, d) ==
    /\ r.result = "Err" => (r.taken = 0 /\ d = NoDraw)
    /\ r.result = "Ok" =>
         /\ r.taken = 2
         /\ d.ind \in gen_range(0, 16 - NumTiles(before))
         /\ d.val \in gen_range(0, 10)

\* C28: random takes nothing from the randomness source when it fails with
\* NoEmptyError and exactly two draws when it succeeds: the cell index in
\* [0, count), then the value in [0, 10); in both models.
C28_DrawsTaken ==
    RandomDone =>
        /\ DrawsTaken(old_board, ret.array, draw.array)
        /\ DrawsTaken(Flat(old_matrix), ret.matrix, draw.matrix)

\* a random that failed on a full board without a draw taken
C28_Witness ==
    /\ RandomDone
    /\ IsFull(old_board)
    /\ ret.array.result = "Err"
    /\ ret.matrix.result = "Err"
    /\ draw.array = NoDraw

\* C29: a slide never decreases the number of empty cells; when
\* ArrayModel::slide reports moved the board has an empty cell; and in a run
\* that calls random only after a slide that reported moved, random returns Ok.
C29_SpawnAfterMovedSucceeds ==
    /\ SlideDone =>
         /\ NumTiles(board) <= NumTiles(old_board)
         /\ NumTiles(Flat(matrix)) <= NumTiles(Flat(old_matrix))
    /\ (SlideDone /\ ret.moved = Some(TRUE)) => ~IsFull(board)
    /\ RandomDone => ret.array.result = "Ok"

\* a spawn that filled the one cell a merge had freed on a full board
C29_Witness ==
    /\ RandomDone
    /\ ret.array.result = "Ok"
    /\ NumTiles(old_board) = 15
    /\ IsFull(board)

\* C30: slides repeated in one direction without a spawn settle: at most the
\* first three report moved, the fourth and every later one reports not-moved
\* and leaves the board as it was.
C30_RepeatedSlidesSettle ==
    (SlideDone /\ steps >= 4) => (ret.moved = None /\ board = old_board)

\* the third slide in a row that reported moved
C30_Witness ==
    /\ SlideDone
    /\ steps = 3
    /\ ret.moved = Some(TRUE)
    /\ NumTiles(board) < NumTiles(old_board)

====
